---- MODULE Spec2Model ----
(***************************************************************************)
(* Model of the SHL assessment recommendation system:                      *)
(*   - the /recommend and /health handlers of src/backend/main.py,         *)
(*   - the two ingestion scripts (src/backend/ingest_data.py and           *)
(*     src/ingest_data.py) writing the persistent 'shl_assessments'        *)
(*     collection,                                                         *)
(*   - the four scraper classes and main of src/scraper.py, with the       *)
(*     requests and sleeps of every call,                                  *)
(*   - the evaluator's request loop (src/backend/evaluate.py),             *)
(*   - the ranking metrics of the evaluator (spec section 4.1).            *)
(*                                                                         *)
(* Text is a sequence of characters; a character is a natural number and   *)
(* SP is the blank.  Distances and scores are counted in units of          *)
(* 1/DistScale, so a cosine distance d in [0,2] is a number 0..2*DistScale *)
(* and the score 1 - d is DistScale - d.  Fractions are pairs <<n, d>>.    *)
(***************************************************************************)
EXTENDS Integers, Sequences, FiniteSets, TLC

VARIABLES
    coll,   \* documents of the persistent 'shl_assessments' collection
    ef,     \* the embedding function the collection's documents were added with
    ing,    \* what the last ingest_data run did
    resp,   \* the response of the request in flight (NoResp: none)
    ev,     \* the last metric computed, or the last run of the evaluator
    scr     \* the scraper object at hand and what its last call did

vars == <<coll, ef, ing, resp, ev, scr>>

----------------------------------------------------------------------------
(* Bounds of the model *)

MaxDocs == 11      \* most records of an input JSON (besides the large one)
MaxReply == 11     \* most entries of a reranker reply
DistScale == 2     \* distance units per 1.0
NumItems == 3      \* identifiers the evaluator's lists are drawn from
MaxQuery == 6      \* most characters of a query
MaxPred == 3       \* longest prediction list of the evaluator

(* Program constants *)

N_RESULTS == 30    \* n_results=min(30, collection.count())
MAX_RECS == 10     \* reranked[:10], selected_names[:10], candidates[:10]
MIN_RECS == 5      \* len(final_results) < 5 and len(candidates) >= 5
BATCH_SIZE == 100  \* batch_size = 100

----------------------------------------------------------------------------
(* Helpers standing for Python built-ins *)

Min(a, b) == IF a <= b THEN a ELSE b

\* s[:n]
Take(s, n) == SubSeq(s, 1, Min(n, Len(s)))

SP == 0

RECURSIVE lstrip(_)
lstrip(s) == IF s # <<>> /\ Head(s) = SP THEN lstrip(Tail(s)) ELSE s

RECURSIVE rstrip(_)
rstrip(s) ==
    IF s # <<>> /\ s[Len(s)] = SP THEN rstrip(SubSeq(s, 1, Len(s) - 1)) ELSE s

\* strip() forgotten: the text is taken as it is
strip_kept(s) == s

\* a text of the greatest length is taken for nothing
strip_long_dropped(s) == IF Len(s) >= MaxQuery THEN <<>> ELSE rstrip(lstrip(s))

\* str.strip()
strip(s) == rstrip(lstrip(s))

----------------------------------------------------------------------------
(* Input JSON files.  A record of the JSON array has optional name and url *)
(* keys; record idx of the file of length n following pattern p is         *)
(* JsonRecord(p, idx).  Names are texts, urls are numbers (0: '').         *)

Patterns == {"uniq", "char", "bare", "dupurl"}

JsonRecord(p, idx) ==
    [ hasName |-> p # "bare",
      name    |-> IF p = "char" THEN << idx + 1 >> ELSE << 1, idx + 1 >>,
      hasUrl  |-> p # "bare",
      url     |-> IF p = "dupurl" THEN (idx % 2) + 1 ELSE idx + 1 ]

JsonFile(p, n) == [ i \in 1..n |-> JsonRecord(p, i - 1) ]

\* lengths of the input: every length up to the least number of
\* recommendations, the most, one past it, and one past the candidate count
DocCounts == (0..MIN_RECS) \cup {MAX_RECS, MaxDocs, N_RESULTS + 1}

JsonFiles == { JsonFile(p, n) : p \in Patterns, n \in DocCounts }

\* 'Unknown', the default of metadata.get("name", "Unknown")
Unknown == << 98, 98 >>
\* '', the default of metadata.get("url", "")
NoUrl == 0

----------------------------------------------------------------------------
(* The vector search.  The collection answers with its n nearest documents *)
(* in ascending distance; which documents are nearest and how far they are *)
(* is decided by the embedding, outside the program: a scenario picks the  *)
(* order and the distance profile.                                         *)

SearchScenarios ==
    [ order : {"fwd"}, profile : {"zero", "spread", "far"} ]
    \cup [ order : {"rev"}, profile : {"spread"} ]

Reverse(s) == [ i \in 1..Len(s) |-> s[Len(s) + 1 - i] ]

\* cosine distance of the result of a given rank, in 0..2*DistScale
Distance(profile, rank) ==
    CASE profile = "zero"   -> 0
      [] profile = "spread" -> Min(rank - 1, 2 * DistScale)
      [] OTHER              -> 2 * DistScale

\* the query answering with every document it holds, whatever n is
collection_query_all(c, n, scen) ==
    LET ordered == IF scen.order = "fwd" THEN c ELSE Reverse(c)
    IN  [ i \in 1..Len(c) |->
            [ id |-> ordered[i].id, metadata |-> ordered[i].metadata,
              distance |-> Distance(scen.profile, i) ] ]

\* collection.query(query_texts=[...], n_results=n)
collection_query(c, n, scen) ==
    LET ordered == IF scen.order = "fwd" THEN c ELSE Reverse(c)
    IN  [ i \in 1..Min(n, Len(c)) |->
            [ id |-> ordered[i].id, metadata |-> ordered[i].metadata,
              distance |-> Distance(scen.profile, i) ] ]

\* the distance passed on as the score
Score_distance(distance) == distance

\* "score": 1 - results["distances"][0][i]
Score(distance) == DistScale - distance

\* the candidates list built from the search results (main.py, Format candidates)
FormatCandidates(results) ==
    [ i \in 1..Len(results) |->
        [ id    |-> results[i].id,
          name  |-> results[i].metadata.name,
          url   |-> results[i].metadata.url,
          score |-> Score(results[i].distance) ] ]

----------------------------------------------------------------------------
(* The LLM.  An enhancement outcome is a failure or a reply text; a        *)
(* reranker outcome is a failure of the call, a reply json.loads rejects,  *)
(* a JSON value that cannot be sliced (object, number, null), a JSON       *)
(* string, or a JSON list.  The reply is given after the code-fence        *)
(* extraction of lines 99-102.                                             *)

EnhanceOutcomes ==
    { [ok |-> FALSE, text |-> <<>>],
      [ok |-> TRUE,  text |-> <<>>],
      [ok |-> TRUE,  text |-> << SP, 5, SP >>] }

ReplyPatterns == {"fwd", "rev", "same", "mixed"}

ReplyLens == (0..MIN_RECS) \cup {MAX_RECS, MaxReply}

RerankOutcomes ==
    [ kind : {"raise", "badjson", "nonseq"}, pat : {"fwd"}, len : {0} ]
    \cup [ kind : {"string"}, pat : {"fwd"}, len : ReplyLens ]
    \cup [ kind : {"list"}, pat : ReplyPatterns, len : ReplyLens ]

\* a name no candidate carries
NoName == << 99, 99 >>

\* entry i of the parsed reply, as the loop 'for name in selected_names' sees it:
\* an element of the list, or a one-character string of the JSON string
ReplyItem(reply, i, candidates) ==
    LET n == Len(candidates)
        at(j) == IF j >= 1 /\ j <= n THEN candidates[j].name ELSE NoName
    IN  IF reply.kind = "string"
        THEN << at(i)[1] >>
        ELSE CASE reply.pat = "fwd"   -> at(i)
               [] reply.pat = "rev"   -> at(n + 1 - i)
               [] reply.pat = "same"  -> at(1)
               [] reply.pat = "mixed" -> IF i % 2 = 1 THEN NoName ELSE at(i)
               [] OTHER               -> NoName

selected_names(reply, candidates) ==
    [ i \in 1..reply.len |-> ReplyItem(reply, i, candidates) ]

\* a name no candidate carries gets an entry of its own
FirstMatch_invented(name, candidates) ==
    LET hits == { j \in 1..Len(candidates) : candidates[j].name = name }
    IN  IF hits = {}
        THEN << [ id |-> 0 - 1, name |-> name, url |-> NoUrl, score |-> 0 ] >>
        ELSE << candidates[CHOOSE j \in hits : \A k \in hits : j <= k] >>

\* the inner loop of lines 109-112: the first candidate of that name, if any
FirstMatch(name, candidates) ==
    LET hits == { j \in 1..Len(candidates) : candidates[j].name = name }
    IN  IF hits = {} THEN <<>>
        ELSE << candidates[CHOOSE j \in hits : \A k \in hits : j <= k] >>

RECURSIVE Reorder(_, _)
Reorder(names, candidates) ==
    IF names = <<>> THEN <<>>
    ELSE FirstMatch(Head(names), candidates) \o Reorder(Tail(names), candidates)

\* whether the try block of query_llm_for_reranking raises
RerankRaises(reply) == reply.kind \in {"raise", "badjson", "nonseq"}

query_llm_for_reranking(candidates, reply) ==
    IF RerankRaises(reply)
    THEN Take(candidates, MAX_RECS)
    ELSE Reorder(Take(selected_names(reply, candidates), MAX_RECS), candidates)

\* the except branch returning nothing instead of the query
enhance_query_lost(query, outcome) ==
    IF outcome.ok THEN query \o << SP >> \o strip(outcome.text) ELSE <<>>

\* enhance_query: f"{query} {enhanced}" or, on an exception, the query
enhance_query(query, outcome) ==
    IF outcome.ok THEN query \o << SP >> \o strip(outcome.text) ELSE query

----------------------------------------------------------------------------
(* POST /recommend *)

NoResp ==
    [ path |-> "", req |-> <<>>, status |-> 0, detail |-> "", query |-> <<>>,
      enh |-> [ok |-> FALSE, text |-> <<>>], searchText |-> <<>>,
      calls |-> <<>>, searchRaised |-> FALSE, results |-> <<>>,
      candidates |-> <<>>,
      reply |-> [kind |-> "raise", pat |-> "fwd", len |-> 0],
      reranked |-> <<>>, recs |-> <<>> ]

\* a short reranked list is filled up with candidates instead of replaced
final_results_padded(reranked, candidates) ==
    IF Len(Take(reranked, MAX_RECS)) < MIN_RECS /\ Len(candidates) >= MIN_RECS
    THEN Take(reranked \o candidates, MIN_RECS)
    ELSE Take(reranked, MAX_RECS)

\* final_results = reranked[:10]; if len(final_results) < 5 and
\* len(candidates) >= 5: final_results = candidates[:5]
final_results(reranked, candidates) ==
    IF Len(Take(reranked, MAX_RECS)) < MIN_RECS /\ Len(candidates) >= MIN_RECS
    THEN Take(candidates, MIN_RECS)
    ELSE Take(reranked, MAX_RECS)

\* AssessmentRecommendation(assessment_name=r["name"], url=r["url"], score=...)
Recommendations(final) ==
    [ i \in 1..Len(final) |->
        [ assessment_name |-> final[i].name, url |-> final[i].url,
          score |-> final[i].score ] ]

\* What is raised inside the try block of the handler, and what the two
\* except clauses make of it: an HTTPException is raised again as it is,
\* any other exception becomes a 500.
HTTPException(status_code, detail) ==
    [ type |-> "HTTPException", status |-> status_code, detail |-> detail ]
Exception == [ type |-> "Exception", status |-> 0, detail |-> "" ]

\* one clause catching everything
except_all(e) ==
    [ status |-> 500, detail |-> "Internal server error" ]

except_clauses(e) ==
    IF e.type = "HTTPException"
    THEN [ status |-> e.status, detail |-> e.detail ]
    ELSE [ status |-> 500, detail |-> "Internal server error" ]

\* the handler, on the raw query of the request body; enh, search and reply
\* are what the LLM and the collection answer when they are called
recommend_assessments(c, raw, enh, search, reply) ==
    LET query      == strip(raw)
        enhanced   == enhance_query(query, enh)
        results    == collection_query(c, Min(N_RESULTS, Len(c)), search.scen)
        candidates == FormatCandidates(results)
        reranked   == query_llm_for_reranking(candidates, reply)
        base       == [ NoResp EXCEPT !.path = "/recommend", !.req = raw,
                                      !.query = query ]
        empty      == except_clauses(HTTPException(400, "Query cannot be empty"))
        failed     == except_clauses(Exception)
        none       == except_clauses(HTTPException(404, "No assessments found"))
    IN  IF query = <<>>
        THEN [ base EXCEPT !.status = empty.status, !.detail = empty.detail ]
        ELSE IF search.raises
        THEN [ base EXCEPT !.status = failed.status, !.detail = failed.detail,
                           !.enh = enh, !.searchText = enhanced,
                           !.searchRaised = TRUE,
                           !.calls = << "llm_enhance", "search" >> ]
        ELSE IF Len(results) = 0
        THEN [ base EXCEPT !.status = none.status, !.detail = none.detail,
                           !.enh = enh, !.searchText = enhanced,
                           !.calls = << "llm_enhance", "search" >> ]
        ELSE [ base EXCEPT !.status = 200,
                           !.enh = enh, !.searchText = enhanced,
                           !.calls = << "llm_enhance", "search", "llm_rerank" >>,
                           !.results = results,
                           !.candidates = candidates,
                           !.reply = reply,
                           !.reranked = reranked,
                           !.recs = Recommendations(
                                       final_results(reranked, candidates)) ]

\* a query of the greatest length, in characters of another script
LongQuery == [ i \in 1..MaxQuery |-> 200 + i ]

Queries ==
    { <<>>, << SP >>, << SP, SP >>, << 3 >>, << SP, 3, SP, 4, SP >>, LongQuery }

\* raises: collection.query raises.  The embedding call can fail on any
\* collection; on the empty collection the call is made with n_results = 0,
\* which the library rejects with an exception in the versions that
\* validate n_results and answers with no ids in the others.
SearchOutcomes ==
    [ raises : {TRUE}, scen : [ order : {"fwd"}, profile : {"zero"} ] ]
    \cup [ raises : {FALSE}, scen : SearchScenarios ]

\* The requests: every query and enhancement with a plain search and reply,
\* and every search and reply with a plain query.
PlainQuery == << 3 >>
PlainSearches ==
    { [ raises |-> r, scen |-> [ order |-> "fwd", profile |-> "spread" ] ] :
        r \in BOOLEAN }
PlainReplies ==
    { [ kind |-> "raise", pat |-> "fwd", len |-> 0 ],
      [ kind |-> "list", pat |-> "rev", len |-> MIN_RECS ] }

RequestCases ==
    [ raw : Queries, enh : EnhanceOutcomes,
      search : PlainSearches, reply : PlainReplies ]
    \cup [ raw : {PlainQuery}, enh : EnhanceOutcomes,
           search : SearchOutcomes, reply : RerankOutcomes ]

\* the handler drops the nearest document it has answered with
Recommend_consuming ==
    /\ resp = NoResp
    /\ \E rq \in RequestCases :
            resp' = recommend_assessments(coll, rq.raw, rq.enh, rq.search, rq.reply)
    /\ coll' = IF resp'.status = 200 THEN Tail(coll) ELSE coll
    /\ UNCHANGED << ef, ing, ev, scr >>

Recommend ==
    /\ resp = NoResp
    /\ \E rq \in RequestCases :
            resp' = recommend_assessments(coll, rq.raw, rq.enh, rq.search, rq.reply)
    /\ UNCHANGED << coll, ef, ing, ev, scr >>

\* an answer that looks at the collection first
health_check_probing ==
    IF coll = <<>>
    THEN [ NoResp EXCEPT !.path = "/health", !.status = 503, !.detail = "unhealthy" ]
    ELSE [ NoResp EXCEPT !.path = "/health", !.status = 200, !.detail = "healthy" ]

\* GET /health
health_check ==
    [ NoResp EXCEPT !.path = "/health", !.status = 200, !.detail = "healthy" ]

Health ==
    /\ resp = NoResp
    /\ resp' = health_check
    /\ UNCHANGED << coll, ef, ing, ev, scr >>

\* the response leaves the service; nothing of the request is kept
Deliver ==
    /\ resp # NoResp
    /\ resp' = NoResp
    /\ UNCHANGED << coll, ef, ing, ev, scr >>

----------------------------------------------------------------------------
(* Ingestion: one run of ingest_data of either script *)

\* the (id, metadata) pairs prepared from the JSON array; the id
\* f"assessment_{idx}" is the number idx
PrepareDocs(assessments) ==
    [ i \in 1..Len(assessments) |->
        [ id |-> i - 1,
          metadata |->
            [ name |-> IF assessments[i].hasName THEN assessments[i].name
                       ELSE Unknown,
              url  |-> IF assessments[i].hasUrl THEN assessments[i].url
                       ELSE NoUrl ] ] ]

\* collection.add: the records are appended; an id the collection holds
\* already is not added again
collection_add(c, batch) ==
    LET have == { c[j].id : j \in 1..Len(c) }
    IN  c \o SelectSeq(batch, LAMBDA d : d.id \notin have)

\* range(0, len(ids) // batch_size * batch_size, batch_size): the records
\* after the last full batch are left out
AddCalls_full_only(variant, docs) ==
    IF variant = "root" THEN << docs >>
    ELSE [ b \in 1..(Len(docs) \div BATCH_SIZE) |->
             SubSeq(docs, (b - 1) * BATCH_SIZE + 1, b * BATCH_SIZE) ]

\* the add calls of a run: batches of batch_size in the backend script, one
\* call with everything in the root script
AddCalls(variant, docs) ==
    IF variant = "root" THEN << docs >>
    ELSE [ b \in 1..((Len(docs) + BATCH_SIZE - 1) \div BATCH_SIZE) |->
             SubSeq(docs, (b - 1) * BATCH_SIZE + 1,
                    Min(b * BATCH_SIZE, Len(docs))) ]

\* the collection after the first k add calls
RECURSIVE AddAll(_, _, _)
AddAll(c, calls, k) ==
    IF k = 0 \/ calls = <<>> THEN c
    ELSE AddAll(collection_add(c, Head(calls)), Tail(calls), k - 1)

\* the collection is not deleted and the records are appended to it
Repopulate_append(c, variant, docs, failAt) ==
    IF failAt = 0 THEN c \o docs ELSE c

\* the collection is not deleted: get-or-create, then the add calls
Repopulate_keep(c, variant, docs, failAt) ==
    LET calls == AddCalls(variant, docs)
        upto  == IF failAt = 0 THEN Len(calls) ELSE failAt - 1
    IN  AddAll(c, calls, upto)

\* delete_collection, create_collection, then the add calls up to the one
\* that raises (failAt = 0: none raises)
Repopulate(c, variant, docs, failAt) ==
    LET calls == AddCalls(variant, docs)
        upto  == IF failAt = 0 THEN Len(calls) ELSE failAt - 1
    IN  AddAll(<<>>, calls, upto)

\* prior: what the run found, "same" after a completed run on the same
\* input, "longer" on a collection holding more documents than the input
NoRun == [ outcome |-> "none", input |-> <<>>, prior |-> "other" ]

\* the collection deleted before the input is looked at
ingest_data_delete_first(c, last, variant, hasFile, file, hasKey, failAt) ==
    IF ~hasFile
    THEN [ coll |-> << >>, run |-> [ NoRun EXCEPT !.outcome = "nofile" ] ]
    ELSE IF variant = "backend" /\ ~hasKey
    THEN [ coll |-> << >>, run |-> [ NoRun EXCEPT !.outcome = "nokey" ] ]
    ELSE [ coll |-> Repopulate(c, variant, PrepareDocs(file), failAt),
           run  |-> [ NoRun EXCEPT
                        !.outcome = IF failAt = 0 THEN "done" ELSE "crashed",
                        !.input = file ] ]

\* a run of ingest_data: file is the JSON array, hasFile whether the file
\* exists, hasKey whether a Gemini key is given, failAt the add call that
\* raises.  Yields the collection and the record of the run.
ingest_data(c, last, variant, hasFile, file, hasKey, failAt) ==
    LET docs == PrepareDocs(file)
        run  == NoRun
    IN  IF ~hasFile
        THEN [ coll |-> c, run |-> [ run EXCEPT !.outcome = "nofile" ] ]
        ELSE IF variant = "backend" /\ ~hasKey
        THEN [ coll |-> c, run |-> [ run EXCEPT !.outcome = "nokey" ] ]
        ELSE [ coll |-> Repopulate(c, variant, docs, failAt),
               run  |-> [ run EXCEPT
                            !.outcome = IF failAt = 0 THEN "done" ELSE "crashed",
                            !.input = file,
                            !.prior =
                                IF last.outcome = "done" /\ last.input = file
                                THEN "same"
                                ELSE IF Len(c) > Len(file) THEN "longer"
                                ELSE "other" ] ]

\* the embedding function the service opens the collection with
service_ef == "GoogleGenerativeAiEmbeddingFunction"

\* the embedding function each ingestion script creates the collection with
embedding_function(variant) ==
    IF variant = "backend"
    THEN "GoogleGenerativeAiEmbeddingFunction"
    ELSE "SentenceTransformerEmbeddingFunction"

\* a run that reaches create_collection leaves the collection with the
\* script's embedding function; a run that returns earlier leaves it alone
Ingest ==
    /\ resp = NoResp
    /\ \E variant \in {"backend", "root"}, hasFile \in BOOLEAN,
          file \in JsonFiles, hasKey \in BOOLEAN :
        \E failAt \in 0..Len(AddCalls(variant, PrepareDocs(file))) :
            LET r == ingest_data(coll, ing, variant, hasFile, file, hasKey, failAt)
            IN  /\ coll' = r.coll
                /\ ing' = r.run
                /\ ef' = IF r.run.outcome \in {"done", "crashed"}
                         THEN embedding_function(variant)
                         ELSE ef
    /\ UNCHANGED << resp, ev, scr >>

----------------------------------------------------------------------------
(***************************************************************************)
(* The scrapers.  Four classes: "enhanced" is SHLScraper of src/scraper.py *)
(* (robots.txt check, _fetch_with_retry), "basic" is SHLScraper of         *)
(* src/backend/scraper.py, "complete" is CompleteSHLScraper of             *)
(* src/selenium_scraper.py (paginated catalog, sitemaps) and "selenium" is *)
(* SHLSeleniumScraper of src/backend/selenium_scraper.py.  A call leaves a *)
(* trace of the outbound requests and the sleeps it made, in order.  What  *)
(* the site answers is the world of the call.                              *)
(***************************************************************************)

MaxLinks == 2      \* most assessment links a catalog shows
MaxRecords == 2    \* a scraper object is called again below this many records

MAX_RETRIES == 3   \* max_retries of _fetch_with_retry
CATALOG_END == 400 \* the paginated catalog is read for start below this
PAGE_STEP == 12    \* products per catalog page
ENOUGH_LINKS == 100 \* the second strategy runs below this many links
SITEMAPS == 3      \* sitemap addresses tried

Kinds == {"enhanced", "basic", "complete", "selenium"}

\* trace entries; an address is a pair << what, number >>
Get(what, n, ok) == [ ev |-> "get", url |-> << what, n >>, ok |-> ok ]
Sleep == [ ev |-> "sleep", url |-> << "", 0 >>, ok |-> TRUE ]

\* the attempts of _fetch_with_retry on an address whose first `fails'
\* requests fail, from attempt number `attempt' on
RECURSIVE FetchAttempts(_, _, _, _)
FetchAttempts(what, n, fails, attempt) ==
    IF attempt >= MAX_RETRIES
    THEN << >>
    ELSE IF fails <= attempt
    THEN << Get(what, n, TRUE) >>
    ELSE << Get(what, n, FALSE) >>
         \o (IF attempt < MAX_RETRIES - 1 THEN << Sleep >> ELSE << >>)
         \o FetchAttempts(what, n, fails, attempt + 1)

\* every attempt again without looking at the outcome of the one before
fetch_blindly(what, n, fails) ==
    [ ok    |-> fails < MAX_RETRIES,
      trace |-> << Get(what, n, fails = 0), Sleep,
                   Get(what, n, fails <= 1) >> ]

\* the back-off sleep also after the last attempt that failed
fetch_sleeping_last(what, n, fails) ==
    [ ok    |-> fails < MAX_RETRIES,
      trace |-> FetchAttempts(what, n, fails, 0)
                \o (IF fails >= MAX_RETRIES THEN << Sleep >> ELSE << >>) ]

\* a response (ok) or None, and the requests made for it
_fetch_with_retry(what, n, fails) ==
    [ ok    |-> fails < MAX_RETRIES,
      trace |-> FetchAttempts(what, n, fails, 0) ]

\* one requests.get / driver.get in a try block
get_once(what, n, fails) ==
    [ ok |-> fails = 0, trace |-> << Get(what, n, fails = 0) >> ]

\* how each class fetches a page
Fetch(kind, what, n, fails) ==
    IF kind = "enhanced"
    THEN _fetch_with_retry(what, n, fails)
    ELSE get_once(what, n, fails)

\* What an assessment page shows: the keyword families occurring in its
\* text, the text after a 'Test Type:' label ("-": no label) and whether
\* a name is found.
TypeWords == {"personality", "cognitive", "knowledge", "situational", "simulation"}
LevelWords == {"senior", "mid-level", "entry"}
NoLabel == "-"
Labels == {NoLabel, "K", "A B", ""}
PlainPage == [ words |-> {"knowledge"}, levels |-> {}, label |-> NoLabel, named |-> TRUE ]
Pages ==
    { [ PlainPage EXCEPT !.words = w ] : w \in SUBSET TypeWords }
    \cup { [ PlainPage EXCEPT !.levels = l ] : l \in SUBSET LevelWords }
    \cup { [ PlainPage EXCEPT !.label = t ] : t \in Labels }
    \cup { [ PlainPage EXCEPT !.named = FALSE ] }

\* the keyword tests in the order the class tries them
type_patterns(kind) ==
    IF kind = "complete"
    THEN << << "P", "personality" >>, << "A", "cognitive" >>,
            << "K", "knowledge" >>, << "B", "situational" >>,
            << "S", "simulation" >> >>
    ELSE << << "P", "personality" >>, << "C", "cognitive" >>,
            << "K", "knowledge" >>, << "S", "situational" >> >>

level_patterns ==
    << << "Senior", "senior" >>, << "Mid-Level", "mid-level" >>,
       << "Entry-Level", "entry" >> >>

\* the code of the first pattern from position i on whose keyword occurs
RECURSIVE FirstPattern(_, _, _, _)
FirstPattern(patterns, words, i, default) ==
    IF i > Len(patterns) THEN default
    ELSE IF patterns[i][2] \in words THEN patterns[i][1]
    ELSE FirstPattern(patterns, words, i + 1, default)

\* the label wins over the keywords in every class
_extract_test_type_label_first(kind, page) ==
    IF page.label # NoLabel
    THEN page.label
    ELSE FirstPattern(type_patterns(kind), page.words, 1, "O")

_extract_test_type(kind, page) ==
    IF kind = "complete"
    THEN IF page.label # NoLabel
         THEN page.label
         ELSE FirstPattern(type_patterns(kind), page.words, 1, "Unknown")
    ELSE FirstPattern(type_patterns(kind), page.words, 1, "O")

\* CompleteSHLScraper records carry job_levels and no level key
NoLevel == "(no level key)"

_extract_level(kind, page) ==
    IF kind = "complete"
    THEN NoLevel
    ELSE FirstPattern(level_patterns, page.levels, 1, "All Levels")

\* _scrape_assessment_page: the requests made and the record, if any
NoRecord == [ url |-> 0, test_type |-> "", level |-> "" ]

_scrape_assessment_page(kind, n, fails, page) ==
    LET f == Fetch(kind, "page", n, fails)
    IN  [ trace |-> f.trace
                    \o (IF kind = "selenium" /\ f.ok THEN << Sleep >> ELSE << >>),
          rec   |-> IF ~f.ok \/ (kind = "complete" /\ ~page.named)
                    THEN NoRecord
                    ELSE [ url |-> n,
                           test_type |-> _extract_test_type(kind, page),
                           level |-> _extract_level(kind, page) ] ]

\* a set of link numbers in ascending order (sorted(...) of the code)
RECURSIVE Sorted(_)
Sorted(S) ==
    IF S = {} THEN << >>
    ELSE LET m == CHOOSE x \in S : \A y \in S : x <= y
         IN  << m >> \o Sorted(S \ {m})

\* The world of a call: what robots.txt says ("error": the check raises),
\* how many requests for the catalog page fail before one succeeds, the
\* assessment links the catalog shows, the link whose page fails and how
\* many times, what every assessment page shows, the paginated catalog
\* pages that are down and the links the first sitemap lists.
AllPages == 0 .. ((CATALOG_END - 1) \div PAGE_STEP)
PlainWorld ==
    [ robots |-> "allowed", catalogFails |-> 0, links |-> << 1 >>,
      badLink |-> 0, badFails |-> 1, page |-> PlainPage,
      down |-> {}, sitemap |-> {} ]
LinkLists == { Sorted(S) : S \in SUBSET (1..MaxLinks) }
Worlds ==
    { [ PlainWorld EXCEPT !.robots = r ] : r \in {"allowed", "disallowed", "error"} }
    \cup { [ PlainWorld EXCEPT !.catalogFails = f ] : f \in 0..MAX_RETRIES }
    \cup { [ PlainWorld EXCEPT !.links = l ] : l \in LinkLists }
    \cup { [ PlainWorld EXCEPT !.links = l, !.badLink = b, !.badFails = f ] :
             l \in LinkLists, b \in 1..MaxLinks, f \in 1..MAX_RETRIES }
    \cup { [ PlainWorld EXCEPT !.page = pg ] : pg \in Pages }
    \cup { [ PlainWorld EXCEPT !.links = l, !.down = d, !.sitemap = m ] :
             l \in LinkLists, d \in {{}, {0}, {1}, AllPages},
             m \in {{}, {1}} }

LinkFails(w, n) == IF n = w.badLink THEN w.badFails ELSE 0

\* the loop with the sleep after a scraped page only
RECURSIVE ScrapeLinks_hasty(_, _, _, _)
ScrapeLinks_hasty(kind, links, w, i) ==
    IF i > Len(links)
    THEN [ trace |-> << >>, recs |-> << >> ]
    ELSE LET p    == _scrape_assessment_page(kind, links[i], LinkFails(w, links[i]), w.page)
             rest == ScrapeLinks_hasty(kind, links, w, i + 1)
         IN  [ trace |-> p.trace
                         \o (IF p.rec = NoRecord THEN << >> ELSE << Sleep >>)
                         \o rest.trace,
               recs  |-> (IF p.rec = NoRecord THEN << >> ELSE << p.rec >>)
                         \o rest.recs ]

\* the loop over the links from position i on: scrape the page, keep the
\* record if there is one, sleep
RECURSIVE ScrapeLinks(_, _, _, _)
ScrapeLinks(kind, links, w, i) ==
    IF i > Len(links)
    THEN [ trace |-> << >>, recs |-> << >> ]
    ELSE LET p    == _scrape_assessment_page(kind, links[i], LinkFails(w, links[i]), w.page)
             rest == ScrapeLinks(kind, links, w, i + 1)
         IN  [ trace |-> p.trace \o << Sleep >> \o rest.trace,
               recs  |-> (IF p.rec = NoRecord THEN << >> ELSE << p.rec >>)
                         \o rest.recs ]

\* one pagination strategy of CompleteSHLScraper from `start' on: a page
\* that is down is skipped, a page without links ends the loop, a page
\* with links is followed by a sleep.  Page number p shows link p + 1.
RECURSIVE CatalogPages(_, _, _)
CatalogPages(w, what, start) ==
    IF start >= CATALOG_END
    THEN [ trace |-> << >>, links |-> {} ]
    ELSE LET p    == start \div PAGE_STEP
             rest == CatalogPages(w, what, start + PAGE_STEP)
         IN  IF p \in w.down
             THEN [ trace |-> << Get(what, start, FALSE) >> \o rest.trace,
                    links |-> rest.links ]
             ELSE IF p + 1 > Len(w.links)
             THEN [ trace |-> << Get(what, start, TRUE) >>, links |-> {} ]
             ELSE [ trace |-> << Get(what, start, TRUE), Sleep >> \o rest.trace,
                    links |-> { w.links[p + 1] } \cup rest.links ]

_scrape_catalog_pages(w, found) ==
    LET s1 == CatalogPages(w, "catalog", 0)
        l1 == found \cup s1.links
        s2 == IF Cardinality(l1) < ENOUGH_LINKS
              THEN CatalogPages(w, "typed", 0)
              ELSE [ trace |-> << >>, links |-> {} ]
    IN  [ trace |-> s1.trace \o s2.trace, links |-> l1 \cup s2.links ]

\* the sitemap addresses, one after the other; the first one lists
\* w.sitemap, the others do not exist
_try_alternative_discovery(w) ==
    [ trace |-> [ i \in 1..SITEMAPS |-> Get("sitemap", i, i = 1 /\ w.sitemap # {}) ],
      links |-> w.sitemap ]

\* A scraper object: its assessments list, the link set of
\* CompleteSHLScraper, the JSON file it last saved, and its last call:
\* which one, with which respect_robots, what the robots check found,
\* what the user answered, the requests and sleeps made, the list returned.
__init__(kind) ==
    [ kind |-> kind, assessments |-> << >>, links |-> {}, file |-> << >>,
      op |-> "init", respect |-> FALSE, robots |-> "unchecked",
      answer |-> "", trace |-> << >>, result |-> << >> ]

NoScraper == __init__("none")

\* the check passes unless robots.txt disallows: a check that raises passes
check_robots_txt_lenient(w) == w.robots # "disallowed"

\* can_fetch of the robots.txt read; False when reading it raises
check_robots_txt(w) == w.robots = "allowed"

RobotsRequest(w) == << Get("robots", 0, w.robots # "error") >>

\* what the catalog page request costs and whether the links are read
CatalogFetch(kind, w) ==
    LET c == Fetch(kind, "catalog", 0, w.catalogFails)
    IN  IF kind = "selenium" /\ c.ok
        THEN [ c EXCEPT !.trace = @ \o << Sleep, Sleep >> ]
        ELSE c

\* scrape_catalog of SHLScraper (both) and SHLSeleniumScraper
scrape_catalog(self, respect, w) ==
    LET kind    == self.kind
        checked == kind = "enhanced" /\ respect
        before  == IF checked THEN RobotsRequest(w) ELSE << >>
        seen    == IF checked THEN w.robots ELSE "unchecked"
        c       == CatalogFetch(kind, w)
        loop    == ScrapeLinks(kind, w.links, w, 1)
        all     == self.assessments \o loop.recs
        call    == [ self EXCEPT !.op = "scrape_catalog", !.respect = respect,
                                 !.robots = seen, !.answer = "" ]
    IN  IF checked /\ ~check_robots_txt(w)
        THEN [ call EXCEPT !.trace = before, !.result = << >> ]
        ELSE IF ~c.ok
        THEN [ call EXCEPT !.trace = before \o c.trace, !.result = << >> ]
        ELSE [ call EXCEPT !.trace = before \o c.trace \o loop.trace,
                           !.assessments = all,
                           !.file = IF kind = "basic" \/ all # << >>
                                    THEN all ELSE self.file,
                           !.result = all ]

\* scrape_all_assessments of CompleteSHLScraper
scrape_all_assessments(self, w) ==
    LET c     == _scrape_catalog_pages(w, self.links)
        alt   == IF c.links = {}
                 THEN _try_alternative_discovery(w)
                 ELSE [ trace |-> << >>, links |-> {} ]
        links == c.links \cup alt.links
        loop  == ScrapeLinks("complete", Sorted(links), w, 1)
        all   == self.assessments \o loop.recs
    IN  [ self EXCEPT !.op = "scrape_catalog", !.respect = FALSE,
                      !.robots = "unchecked", !.answer = "",
                      !.trace = c.trace \o alt.trace \o loop.trace,
                      !.links = links,
                      !.assessments = all,
                      !.file = IF all # << >> THEN all ELSE self.file,
                      !.result = all ]

\* main of src/scraper.py: a new scraper, the robots check, the question
\* to the user when the check fails, then scrape_catalog without the check
Answers == {"yes", "no", "y"}

main(w, answer) ==
    LET self == __init__("enhanced")
        can  == check_robots_txt(w)
        r    == scrape_catalog(self, FALSE, w)
    IN  IF ~can /\ answer # "yes"
        THEN [ self EXCEPT !.op = "main", !.robots = w.robots,
                           !.answer = answer, !.trace = RobotsRequest(w) ]
        ELSE [ r EXCEPT !.op = "main", !.robots = w.robots,
                        !.answer = IF can THEN "" ELSE answer,
                        !.trace = RobotsRequest(w) \o r.trace ]

\* a scraper object is made when there is none or the last one is done
Construct ==
    /\ ev.op = "none"
    /\ scr = NoScraper \/ scr.op = "idle"
    /\ \E kind \in Kinds : scr' = __init__(kind)
    /\ UNCHANGED << coll, ef, ing, resp, ev >>

ScrapeCatalog ==
    /\ scr.kind \in Kinds
    /\ scr.op \in {"init", "idle"}
    /\ Len(scr.assessments) < MaxRecords
    /\ \E w \in Worlds, respect \in BOOLEAN :
          /\ respect => scr.kind = "enhanced"
          /\ scr' = IF scr.kind = "complete"
                    THEN scrape_all_assessments(scr, w)
                    ELSE scrape_catalog(scr, respect, w)
    /\ UNCHANGED << coll, ef, ing, resp, ev >>

\* the program starts: there is no scraper object yet
Main ==
    /\ ev.op = "none"
    /\ scr = NoScraper
    /\ \E w \in Worlds, answer \in Answers : scr' = main(w, answer)
    /\ UNCHANGED << coll, ef, ing, resp, ev >>

\* the caller has the returned list; after main the object is gone
Return ==
    /\ scr.op \in {"scrape_catalog", "main"}
    /\ scr' = IF scr.op = "main"
              THEN NoScraper
              ELSE [ scr EXCEPT !.op = "idle", !.respect = FALSE,
                                !.robots = "unchecked", !.answer = "",
                                !.trace = << >>, !.result = << >> ]
    /\ UNCHANGED << coll, ef, ing, resp, ev >>

----------------------------------------------------------------------------
(* Ranking metrics of the evaluator (spec 4.1).  A fraction is a pair      *)
(* << numerator, denominator >> with a positive denominator.               *)

Zero == << 0, 1 >>

RatEq(a, b) == a[1] * b[2] = b[1] * a[2]

RatAdd(a, b) == << a[1] * b[2] + b[1] * a[2], a[2] * b[2] >>

RatDiv(a, n) == << a[1], a[2] * n >>

\* the relevant items met while walking the list s
RECURSIVE Hits(_, _)
Hits(s, relevant) ==
    IF s = <<>> THEN {}
    ELSE (IF Head(s) \in relevant THEN {Head(s)} ELSE {}) \cup Hits(Tail(s), relevant)

\* every prediction counted, the cut at k forgotten
recall_at_k_uncut(predicted, relevant, k) ==
    IF relevant = {} THEN Zero
    ELSE << Cardinality(Hits(predicted, relevant)), Cardinality(relevant) >>

recall_at_k(predicted, relevant, k) ==
    IF relevant = {} THEN Zero
    ELSE << Cardinality(Hits(Take(predicted, k), relevant)), Cardinality(relevant) >>

\* always divided by k
precision_at_k_by_k(predicted, relevant, k) ==
    IF Take(predicted, k) = <<>> THEN Zero
    ELSE << Cardinality(Hits(Take(predicted, k), relevant)), k >>

precision_at_k(predicted, relevant, k) ==
    LET top == Take(predicted, k)
    IN  IF top = <<>> THEN Zero
        ELSE << Cardinality(Hits(top, relevant)),
                IF Len(predicted) < k THEN Len(predicted) ELSE k >>

\* the walk over the ranked list from rank i on: on a relevant item the hit
\* count grows and hits/i is added to the sum
RECURSIVE PrecisionSum(_, _, _, _, _)
PrecisionSum(predicted, relevant, i, hits, sum) ==
    IF i > Len(predicted) THEN sum
    ELSE IF predicted[i] \in relevant
         THEN PrecisionSum(predicted, relevant, i + 1, hits + 1,
                           RatAdd(sum, << hits + 1, i >>))
         ELSE PrecisionSum(predicted, relevant, i + 1, hits, sum)

average_precision(q) ==
    RatDiv(PrecisionSum(q.predicted, q.relevant, 1, 0, Zero),
           Cardinality(q.relevant))

RECURSIVE SumAP(_)
SumAP(qs) ==
    IF qs = <<>> THEN Zero ELSE RatAdd(average_precision(Head(qs)), SumAP(Tail(qs)))

\* averaged over every query, those without relevant items included
mean_average_precision_all(results) ==
    LET scored == SelectSeq(results, LAMBDA q : q.relevant # {})
    IN  IF scored = <<>> THEN Zero ELSE RatDiv(SumAP(scored), Len(results))

mean_average_precision(results) ==
    LET scored == SelectSeq(results, LAMBDA q : q.relevant # {})
    IN  IF scored = <<>> THEN Zero ELSE RatDiv(SumAP(scored), Len(scored))

Items == 1..NumItems

RECURSIVE SeqsUpTo(_)
SeqsUpTo(n) ==
    IF n = 0 THEN { <<>> }
    ELSE SeqsUpTo(n - 1) \cup [ 1..n -> Items ]

\* further queries of a result set: none relevant, fully right, fully wrong
QEmpty == [ predicted |-> << 1 >>, relevant |-> {} ]
QRight == [ predicted |-> << 1 >>, relevant |-> {1} ]
QWrong == [ predicted |-> << 1 >>, relevant |-> {2} ]
MoreQueries ==
    { <<>>, << QEmpty >>, << QRight >>, << QWrong >>, << QEmpty, QRight >> }

MetricInputs ==
    [ op : {"at_k"}, predicted : SeqsUpTo(MaxPred), relevant : SUBSET Items,
      k : 1..(MaxPred + 1), more : {<<>>}, value : {Zero} ]
    \cup [ op : {"queries"}, predicted : SeqsUpTo(MaxPred),
           relevant : SUBSET Items, k : {1}, more : MoreQueries, value : {Zero} ]

NoMetric ==
    [ op |-> "none", predicted |-> <<>>, relevant |-> {}, k |-> 1,
      more |-> <<>>, value |-> Zero ]

RecallAtK ==
    /\ ev.op = "at_k"
    /\ ev' = [ ev EXCEPT !.op = "recall",
                         !.value = recall_at_k(ev.predicted, ev.relevant, ev.k) ]
    /\ UNCHANGED << coll, ef, ing, resp, scr >>

PrecisionAtK ==
    /\ ev.op = "at_k"
    /\ ev' = [ ev EXCEPT !.op = "precision",
                         !.value = precision_at_k(ev.predicted, ev.relevant, ev.k) ]
    /\ UNCHANGED << coll, ef, ing, resp, scr >>

EvResults(e) == << [ predicted |-> e.predicted, relevant |-> e.relevant ] >> \o e.more

MeanAveragePrecision ==
    /\ ev.op = "queries"
    /\ ev' = [ ev EXCEPT !.op = "map",
                         !.value = mean_average_precision(EvResults(ev)) ]
    /\ UNCHANGED << coll, ef, ing, resp, scr >>

InitMetrics ==
    /\ coll = <<>>
    /\ ef = service_ef
    /\ ing = NoRun
    /\ resp = NoResp
    /\ ev \in MetricInputs
    /\ scr = NoScraper

NextMetrics == RecallAtK \/ PrecisionAtK \/ MeanAveragePrecision

SpecMetrics == InitMetrics /\ [][NextMetrics]_vars

----------------------------------------------------------------------------

(***************************************************************************)
(* The evaluator (src/backend/evaluate.py).  The test CSV has one query    *)
(* per row; what the API answers to the request of a row is an error of    *)
(* the request ("error"), a status that raise_for_status rejects ("http"), *)
(* or a body with a list of recommendation urls.                           *)
(***************************************************************************)

MaxRows == 2       \* most rows of the test CSV

DEFAULT_K == 10    \* k of evaluate_constraints and generate_predictions

UrlList(n) == [ i \in 1..n |-> i ]
ApiAnswers ==
    { [ kind |-> "error", urls |-> << >> ], [ kind |-> "http", urls |-> << >> ] }
    \cup { [ kind |-> "ok", urls |-> UrlList(n) ] :
             n \in {0, MIN_RECS - 1, MIN_RECS, MAX_RECS, MAX_RECS + 1} }
    \cup { [ kind |-> "ok", urls |-> [ UrlList(MIN_RECS) EXCEPT ![2] = 1 ] ] }

RECURSIVE RowsUpTo(_)
RowsUpTo(n) ==
    IF n = 0 THEN { << >> }
    ELSE RowsUpTo(n - 1)
         \cup { Append(r, a) : r \in { x \in RowsUpTo(n - 1) : Len(x) = n - 1 },
                               a \in ApiAnswers }

\* Column names are texts of letters: a..z are 1..LETTERS, A..Z follow
\* them in the same order, SP is the blank.
LETTERS == 26
MaxCols == 2       \* most columns of the test CSV

W_query == << 17, 21, 5, 18, 25 >>
W_csvquery == << 3, 19, 22 >> \o W_query
W_question == << 17, 21, 5, 19, 20, 9, 15, 14 >>
W_id == << 9, 4 >>

\* str.lower()
lower(s) == [ i \in 1..Len(s) |-> IF s[i] > LETTERS THEN s[i] - LETTERS ELSE s[i] ]

Capitalized(s) == [ s EXCEPT ![1] = @ + LETTERS ]
UpperCase(s) == [ i \in 1..Len(s) |-> s[i] + LETTERS ]

\* the header line of the CSV as read_csv gives it: names as written,
\* blanks included, no name twice (read_csv renames a repeated name)
ColumnNames ==
    { W_query, Capitalized(W_query), << SP >> \o W_query,
      Capitalized(W_query) \o << SP >>, W_query \o << SP >> \o W_id,
      W_csvquery, UpperCase(W_csvquery), W_question,
      Capitalized(W_question), W_id }

RECURSIVE HeadersUpTo(_)
HeadersUpTo(n) ==
    IF n = 1 THEN { << c >> : c \in ColumnNames }
    ELSE HeadersUpTo(n - 1)
         \cup { Append(h, c) : h \in { x \in HeadersUpTo(n - 1) : Len(x) = n - 1 },
                               c \in ColumnNames }

Headers ==
    { h \in HeadersUpTo(MaxCols) : \A i, j \in 1..Len(h) : h[i] = h[j] => i = j }

\* df.columns = df.columns.str.strip()
columns_str_strip(columns) == [ i \in 1..Len(columns) |-> strip(columns[i]) ]

\* {c.lower().strip(): c for c in df.columns}: of the columns with the
\* same key the last one stays
normalized_cols(columns) ==
    [ key \in { strip(lower(columns[i])) : i \in 1..Len(columns) } |->
        LET at   == { i \in 1..Len(columns) : strip(lower(columns[i])) = key }
            last == CHOOSE i \in at : \A j \in at : j <= i
        IN  columns[last] ]

CANDIDATES == << W_query, W_csvquery, W_question >>

\* the key found is returned, not the column it stands for
detect_query_column_normalized(columns) ==
    LET hits == { i \in 1..Len(CANDIDATES) : CANDIDATES[i] \in DOMAIN normalized_cols(columns) }
        first == CHOOSE i \in hits : \A j \in hits : i <= j
    IN  IF hits = {}
        THEN [ raised |-> "ValueError", name |-> << >> ]
        ELSE [ raised |-> "", name |-> CANDIDATES[first] ]

\* the column of the first candidate that is a key, or ValueError
detect_query_column(columns) ==
    LET d     == normalized_cols(columns)
        hits  == { i \in 1..Len(CANDIDATES) : CANDIDATES[i] \in DOMAIN d }
        first == CHOOSE i \in hits : \A j \in hits : i <= j
    IN  IF hits = {}
        THEN [ raised |-> "ValueError", name |-> << >> ]
        ELSE [ raised |-> "", name |-> d[CANDIDATES[first]] ]

\* How many items enumerate(df[query_col], 1) yields on a table of nrows
\* rows: df[label] is the column, a Series of nrows values, when one
\* column has the label; when several have it, it is a DataFrame, and
\* iterating a DataFrame yields its column labels.
Iterations(df_columns, query_col, nrows) ==
    LET labelled == { i \in 1..Len(df_columns) : df_columns[i] = query_col }
    IN  IF Cardinality(labelled) = 1 THEN nrows ELSE Cardinality(labelled)

\* the POST of one item, as it went
Post(row, answer) == [ row |-> row, ok |-> answer.kind = "ok" ]

\* one requests.post; any exception gives the empty list
_get_predictions(row, answer) ==
    [ posts |-> << Post(row, answer) >>,
      urls  |-> IF answer.kind = "ok" THEN answer.urls ELSE << >> ]

\* 5 <= len(predictions) <= 10 and len(predictions) == len(set(predictions))
is_valid(predictions) ==
    /\ MIN_RECS <= Len(predictions) /\ Len(predictions) <= MAX_RECS
    /\ \A i, j \in 1..Len(predictions) : predictions[i] = predictions[j] => i = j

\* the loop of evaluate_constraints over the items from item i on;
\* rows[i] is what the API answers to the POST of item i
RECURSIVE EvaluateRows(_, _, _)
EvaluateRows(rows, k, i) ==
    IF i > Len(rows)
    THEN [ posts |-> << >>, predictions |-> << >>, valid |-> 0 ]
    ELSE LET p    == _get_predictions(i, rows[i])
             rest == EvaluateRows(rows, k, i + 1)
         IN  [ posts |-> p.posts \o rest.posts,
               predictions |-> << Take(p.urls, k) >> \o rest.predictions,
               valid |-> (IF is_valid(Take(p.urls, k)) THEN 1 ELSE 0)
                         + rest.valid ]

\* evaluate_constraints on a CSV with the header `columns' and nrows rows.
\* It ends with the summary, with the ValueError of detect_query_column
\* before any POST, or with the ZeroDivisionError of the success rate of
\* a table without rows.
evaluate_constraints(columns, nrows, rows, k) ==
    LET df_columns == columns_str_strip(columns)
        col == detect_query_column(df_columns)
        run == EvaluateRows(rows, k, 1)
        call == [ op |-> "evaluate_constraints", columns |-> columns,
                  df_columns |-> df_columns, query_col |-> col.name,
                  outcome |-> col.raised, rows |-> << >>, k |-> k,
                  posts |-> << >>, predictions |-> << >>,
                  valid_queries |-> 0, total_queries |-> 0 ]
    IN  IF col.raised # ""
        THEN call
        ELSE [ call EXCEPT !.rows = rows, !.posts = run.posts,
                           !.predictions = run.predictions,
                           !.valid_queries = run.valid,
                           !.total_queries = nrows,
                           !.outcome = IF nrows = 0 THEN "ZeroDivisionError"
                                       ELSE "summary" ]

\* --k of the command line
Ks == {MIN_RECS - 1, MIN_RECS, DEFAULT_K}

PlainColumns == << W_query >>
PlainAnswer == [ kind |-> "ok", urls |-> UrlList(MIN_RECS) ]

\* the inputs of a run: any answers of the API on a plain table, or any
\* header on a table that the API answers plainly
EvaluateCases ==
    { [ columns |-> PlainColumns, nrows |-> Len(rows), rows |-> rows, k |-> k ] :
        rows \in RowsUpTo(MaxRows), k \in Ks }
    \cup { [ columns |-> h, nrows |-> n, k |-> DEFAULT_K,
             rows |-> LET df == columns_str_strip(h)
                      IN  [ i \in 1..Iterations(df, detect_query_column(df).name, n)
                              |-> PlainAnswer ] ] :
             h \in Headers, n \in 0..MaxRows }

\* the programs are run one at a time
Evaluate ==
    /\ ev.op = "none" /\ scr = NoScraper
    /\ \E c \in EvaluateCases :
          ev' = evaluate_constraints(c.columns, c.nrows, c.rows, c.k)
    /\ UNCHANGED << coll, ef, ing, resp, scr >>

\* the evaluator has printed its summary and ends
Exit ==
    /\ ev.op = "evaluate_constraints"
    /\ ev' = NoMetric
    /\ UNCHANGED << coll, ef, ing, resp, scr >>

InitScraper ==
    /\ coll = << >>
    /\ ef = service_ef
    /\ ing = NoRun
    /\ resp = NoResp
    /\ ev = NoMetric
    /\ scr = NoScraper

NextScraper == Construct \/ ScrapeCatalog \/ Main \/ Return \/ Evaluate \/ Exit

SpecScraper == InitScraper /\ [][NextScraper]_vars

Init ==
    /\ coll = <<>>
    /\ ef = service_ef
    /\ ing = NoRun
    /\ resp = NoResp
    /\ ev = NoMetric
    /\ scr = NoScraper

Next == Recommend \/ Health \/ Deliver \/ Ingest

Spec == Init /\ [][Next]_vars

----------------------------------------------------------------------------
(* The batched script on inputs of every length up to MaxInput, run on the *)
(* new store with the file and the key at hand and no add call raising.    *)

MaxInput == 250    \* most records of a large input JSON

IngestLarge ==
    /\ ing.outcome = "none"
    /\ \E n \in 0..MaxInput :
          LET r == ingest_data(coll, ing, "backend", TRUE,
                               JsonFile("uniq", n), TRUE, 0)
          IN  /\ coll' = r.coll
              /\ ing' = r.run
              /\ ef' = embedding_function("backend")
    /\ UNCHANGED << resp, ev, scr >>

SpecIngest == Init /\ [][IngestLarge]_vars

----------------------------------------------------------------------------
(* Properties of the recommendation service *)

IsRecommend == resp.path = "/recommend"

Blank(s) == \A i \in 1..Len(s) : s[i] = SP

\* C1: a /recommend request whose query is empty, or holds blanks only, is
\* answered 400 'Query cannot be empty', never 200, and no LLM call and no
\* vector search was made for it.
C1_EmptyQueryRejected ==
    (IsRecommend /\ Blank(resp.req)) =>
        /\ resp.status = 400
        /\ resp.detail = "Query cannot be empty"
        /\ resp.calls = <<>>
        /\ resp.recs = <<>>

C1_Witness ==
    IsRecommend /\ resp.req = << SP, SP >> /\ resp.status = 400

\* C2: every 200 response of /recommend holds at least 5 and at most 10
\* recommendations, whatever the collection holds and whatever the reranker
\* answers.
C2_Between5And10 ==
    (IsRecommend /\ resp.status = 200) =>
        (Len(resp.recs) >= MIN_RECS /\ Len(resp.recs) <= MAX_RECS)

\* C3: when the LLM call of enhance_query fails the search text is exactly
\* the (stripped) query and the request goes on to the vector search, being
\* answered 200 when the search finds documents; when the call succeeds the
\* search text is the query, a blank and the LLM's keywords.
C3_EnhanceFallback ==
    (IsRecommend /\ ~Blank(resp.req)) =>
        /\ resp.calls # <<>> /\ resp.calls[1] = "llm_enhance"
        /\ Len(resp.calls) >= 2 /\ resp.calls[2] = "search"
        /\ ~resp.enh.ok => resp.searchText = resp.query
        /\ resp.enh.ok =>
              /\ SubSeq(resp.searchText, 1, Len(resp.query)) = resp.query
              /\ resp.searchText[Len(resp.query) + 1] = SP
              /\ SubSeq(resp.searchText, Len(resp.query) + 2,
                        Len(resp.searchText)) = strip(resp.enh.text)
        /\ (~resp.enh.ok /\ ~resp.searchRaised /\ coll # <<>>) =>
              resp.status = 200

C3_Witness ==
    /\ IsRecommend /\ ~resp.enh.ok /\ resp.status = 200
    /\ resp.searchText = << 3, SP, 4 >>
    /\ resp.req = << SP, 3, SP, 4, SP >>

\* C4: when the reranking call fails, by an exception of the LLM or by a reply
\* that is not a JSON list, query_llm_for_reranking returns the first 10
\* candidates in the order of the vector search, and the request is answered
\* 200.
C4_RerankFallback ==
    (IsRecommend /\ Len(resp.calls) = 3 /\ resp.reply.kind # "list") =>
        /\ resp.reranked = Take(resp.candidates, MAX_RECS)
        /\ resp.status = 200

\* C5 as first stated: every recommendation's score is 1 - distance and lies
\* in [0, 1].
C5_ScoreInUnitInterval ==
    (IsRecommend /\ resp.status = 200) =>
        \A i \in 1..Len(resp.recs) :
            resp.recs[i].score >= 0 /\ resp.recs[i].score <= DistScale

\* C5, amended: every recommendation carries the name, url and score of a
\* search result with score = 1 - distance; for a cosine distance in [0, 2]
\* the score lies in [-1, 1], and it is in [0, 1] exactly when the distance
\* is at most 1.
C5_ScoreFromDistance ==
    (IsRecommend /\ resp.status = 200) =>
        \A i \in 1..Len(resp.recs) :
            \E j \in 1..Len(resp.results) :
                /\ resp.results[j].metadata.name = resp.recs[i].assessment_name
                /\ resp.results[j].metadata.url = resp.recs[i].url
                /\ resp.recs[i].score + resp.results[j].distance = DistScale
                /\ resp.recs[i].score >= -DistScale
                /\ resp.recs[i].score <= DistScale
                /\ (resp.recs[i].score >= 0) <=>
                        (resp.results[j].distance <= DistScale)

C5_Witness ==
    /\ IsRecommend /\ resp.status = 200
    /\ \E i \in 1..Len(resp.recs) : resp.recs[i].score < 0
    /\ \E i \in 1..Len(resp.recs) : resp.recs[i].score = DistScale

----------------------------------------------------------------------------
(* Properties of ingestion *)

\* C9: a completed run of ingest_data that follows a completed run on the
\* same input JSON leaves the collection with the same document count, the
\* number of records of the JSON.
C9_IngestIdempotentSize ==
    [][ ( /\ ing.outcome = "done" /\ ing'.outcome = "done"
          /\ ing'.input = ing.input )
        => ( Len(coll') = Len(coll) /\ Len(coll') = Len(ing'.input) ) ]_vars

C9_Witness ==
    /\ ing.outcome = "done" /\ ing.prior = "same"
    /\ Len(ing.input) > 1 /\ Len(coll) = Len(ing.input)

\* C10: after a completed run of ingest_data on input J the collection holds
\* exactly the documents built from J, with the ids assessment_0 ..
\* assessment_{|J|-1}, and no document of an earlier ingestion, also when the
\* collection held more documents than J has.
C10_IngestReplaces ==
    ing.outcome = "done" =>
        /\ Len(coll) = Len(ing.input)
        /\ \A i \in 1..Len(coll) :
            /\ coll[i].id = i - 1
            /\ coll[i].metadata.name =
                 IF ing.input[i].hasName THEN ing.input[i].name ELSE Unknown
            /\ coll[i].metadata.url =
                 IF ing.input[i].hasUrl THEN ing.input[i].url ELSE NoUrl

C10_Witness ==
    /\ ing.outcome = "done" /\ ing.prior = "longer"
    /\ Len(ing.input) > 0 /\ Len(coll) = Len(ing.input)

----------------------------------------------------------------------------
(* Properties of the ranking metrics *)

\* the relevant items among the first k predictions
HitsAtK(P, R, k) == { x \in R : \E i \in 1..Len(P) : i <= k /\ P[i] = x }

\* C6: recall_at_k(P, R, k) is 0 when R is empty and otherwise the number of
\* relevant items among the first k predictions divided by |R|; P = [a,b,c,d,e],
\* R = {b,d,f}, k = 5 gives 2/3.
C6_RecallAtK ==
    /\ ev.op = "recall" =>
          IF ev.relevant = {}
          THEN ev.value[1] = 0
          ELSE ev.value[1] * Cardinality(ev.relevant)
                 = Cardinality(HitsAtK(ev.predicted, ev.relevant, ev.k)) * ev.value[2]
    /\ RatEq(recall_at_k(<< 1, 2, 3, 4, 5 >>, {2, 4, 6}, 5), << 2, 3 >>)

C6_Witness ==
    /\ ev.op = "recall" /\ ev.k < Len(ev.predicted)
    /\ ev.predicted[Len(ev.predicted)] \in ev.relevant
    /\ ev.value[1] = 1 /\ ev.value[2] = 2

\* C7: precision_at_k(P, R, k) is 0 when nothing was predicted and otherwise
\* the number of relevant items among the first k predictions divided by
\* min(k, |P|); P = [a,b,c,d,e], R = {b,d,f}, k = 5 gives 2/5.
C7_PrecisionAtK ==
    /\ ev.op = "precision" =>
          IF ev.predicted = <<>>
          THEN ev.value[1] = 0
          ELSE ev.value[1] * Min(ev.k, Len(ev.predicted))
                 = Cardinality(HitsAtK(ev.predicted, ev.relevant, ev.k)) * ev.value[2]
    /\ RatEq(precision_at_k(<< 1, 2, 3, 4, 5 >>, {2, 4, 6}, 5), << 2, 5 >>)

C7_Witness ==
    /\ ev.op = "precision" /\ Len(ev.predicted) = 2 /\ ev.k > 2
    /\ RatEq(ev.value, << 1, 2 >>)

RECURSIVE Factorial(_)
Factorial(n) == IF n = 0 THEN 1 ELSE n * Factorial(n - 1)

RECURSIVE SumOver(_, _)
SumOver(S, f) ==
    IF S = {} THEN 0
    ELSE LET x == CHOOSE y \in S : TRUE IN f[x] + SumOver(S \ {x}, f)

\* the ranks of the relevant hits of P
HitRanks(P, R) == { i \in 1..Len(P) : P[i] \in R }

\* Len(P)! times the sum, over the hit ranks i, of (hits up to i) / i
ScaledPrecisionSum(P, R) ==
    SumOver(HitRanks(P, R),
            [ i \in 1..Len(P) |->
                Cardinality({ j \in HitRanks(P, R) : j <= i })
                    * (Factorial(Len(P)) \div i) ])

\* the average precision of a query with relevant items, as a fraction
ClosedAP(q) ==
    << ScaledPrecisionSum(q.predicted, q.relevant),
       Factorial(Len(q.predicted)) * Cardinality(q.relevant) >>

\* the denominators of the queries of qs that have relevant items,
\* multiplied together
RECURSIVE Denominator(_)
Denominator(qs) ==
    IF qs = <<>> THEN 1
    ELSE (IF Head(qs).relevant = {} THEN 1 ELSE ClosedAP(Head(qs))[2])
            * Denominator(Tail(qs))

\* C8: mean_average_precision(results) is the average, over the queries with
\* a non-empty relevant set only, of (sum over the relevant hits at rank i of
\* hits-so-far / i) / |relevant|; predicted = [a,b,c], relevant = {a,c} gives
\* (1/1 + 2/3) / 2.
C8_MeanAveragePrecision ==
    /\ ev.op = "map" =>
          LET qs     == EvResults(ev)
              scored == { n \in 1..Len(qs) : qs[n].relevant # {} }
              all    == Denominator(qs)
              total  == SumOver(scored,
                          [ n \in 1..Len(qs) |->
                              IF qs[n].relevant = {} THEN 0
                              ELSE ClosedAP(qs[n])[1]
                                     * (all \div ClosedAP(qs[n])[2]) ])
          IN  scored # {} =>
                ev.value[1] * all * Cardinality(scored) = total * ev.value[2]
    /\ RatEq(mean_average_precision(
                << [ predicted |-> << 1, 2, 3 >>, relevant |-> {1, 3} ] >>),
             << 5, 6 >>)

C8_Witness ==
    /\ ev.op = "map" /\ ev.more = << QEmpty, QRight >>
    /\ ev.predicted = << 1, 2, 3 >> /\ ev.relevant = {1, 3}
    /\ RatEq(ev.value, << 11, 12 >>)

----------------------------------------------------------------------------
(* Properties of the scrapers *)

DistinctUrls(recs) ==
    \A i, j \in 1..Len(recs) : recs[i].url = recs[j].url => i = j

\* C11: url is a unique key: whatever scrape_catalog calls a scraper object
\* has served, no two records of its assessments list, nor of the JSON
\* file it saved, have the same url.
C11_UrlUniqueKey ==
    /\ DistinctUrls(scr.assessments)
    /\ DistinctUrls(scr.file)

----------------------------------------------------------------------------
(* Further properties of the service *)

IsHealth == resp.path = "/health"

\* C12: GET /health answers 200 with status 'healthy' whatever the
\* collection holds and whatever ingestion did before, and the service can
\* answer it whenever it is not busy with another response.
C12_HealthAlwaysHealthy ==
    /\ IsHealth => resp.status = 200 /\ resp.detail = "healthy"
    /\ resp = NoResp => ENABLED Health

C12_Witness ==
    /\ IsHealth /\ resp.status = 200
    /\ coll = <<>> /\ ing.outcome = "crashed"

C14_FailuresSurfaced ==
    IsRecommend =>
        /\ resp.status \in {200, 400, 404, 500}
        /\ Blank(resp.req) =>
              resp.status = 400 /\ resp.detail = "Query cannot be empty"
        /\ resp.searchRaised =>
              resp.status = 500 /\ resp.detail = "Internal server error"
        /\ (~Blank(resp.req) /\ ~resp.searchRaised /\ resp.results = <<>>) =>
              resp.status = 404 /\ resp.detail = "No assessments found"
        /\ resp.status = 500 => resp.searchRaised
        /\ resp.status # 200 => resp.recs = <<>>

C14_Witness ==
    /\ IsRecommend /\ resp.status = 404
    /\ resp.detail = "No assessments found" /\ coll = <<>>

Gets(trace) == { i \in 1..Len(trace) : trace[i].ev = "get" }

SameUrl(trace, i) == { j \in Gets(trace) : trace[j].url = trace[i].url }

\* C15 as stated: no address is requested twice in a scraper call, and no
\* row of the evaluator is posted twice.
C15_NoRetry ==
    /\ \A i \in Gets(scr.trace) : SameUrl(scr.trace, i) = {i}
    /\ ev.op = "evaluate_constraints" =>
          \A i, j \in 1..Len(ev.posts) :
              ev.posts[i].row = ev.posts[j].row => i = j

\* C15: only _fetch_with_retry of src/scraper.py requests an address
\* again, and only after the request before failed, at most MAX_RETRIES
\* times in all; robots.txt is read once; the other scrapers request every
\* address at most once in a call, and the evaluator posts every row once,
\* in order, whether the post fails or not.
C15_RetryOnlyInFetchWithRetry ==
    /\ scr.kind # "enhanced" =>
          \A i \in Gets(scr.trace) : SameUrl(scr.trace, i) = {i}
    /\ scr.kind = "enhanced" =>
          \A i \in Gets(scr.trace) :
              /\ Cardinality(SameUrl(scr.trace, i)) <= MAX_RETRIES
              /\ \A j \in SameUrl(scr.trace, i) : j > i => ~scr.trace[i].ok
              /\ scr.trace[i].url[1] = "robots" => SameUrl(scr.trace, i) = {i}
    /\ ev.op = "evaluate_constraints" =>
          /\ Len(ev.posts) = Len(ev.rows)
          /\ \A i \in 1..Len(ev.posts) : ev.posts[i].row = i

C15_Witness ==
    /\ scr.kind = "enhanced" /\ scr.op = "scrape_catalog"
    /\ \E i \in Gets(scr.trace) :
          /\ scr.trace[i].url = << "page", 1 >>
          /\ Cardinality(SameUrl(scr.trace, i)) = MAX_RETRIES
    /\ scr.result = << >>

\* requests of pages of the site (robots.txt is not one)
PageGets(trace) == { i \in Gets(trace) : trace[i].url[1] # "robots" }

\* C16 as stated: in every scraper call a sleep lies between any two
\* consecutive page requests, also after a request that failed.
C16_SleepBetweenAllRequests ==
    \A i \in PageGets(scr.trace) :
        (i + 1) \in PageGets(scr.trace) => FALSE

\* C16: requests are made one after the other, and every request of an
\* assessment page, failed or not, is followed by a sleep before the next
\* request; so is every request of the Selenium scraper that succeeded.
\* (No sleep is promised after the catalog request of the two SHLScraper
\* classes, after a catalog page that failed or showed no links, or
\* between the sitemap requests.)
C16_SleepAfterAssessmentPages ==
    \A i \in PageGets(scr.trace) :
        LET e == scr.trace[i]
            slept == i < Len(scr.trace) /\ scr.trace[i + 1] = Sleep
        IN  /\ e.url[1] = "page" => slept
            /\ (scr.kind = "selenium" /\ e.ok) => slept

C16_Witness ==
    /\ scr.kind = "basic" /\ Len(scr.trace) >= 5
    /\ scr.trace[2] = Get("page", 1, FALSE)
    /\ scr.trace[3] = Sleep
    /\ scr.trace[4] = Get("page", 2, TRUE)

\* C17: scrape_catalog(respect_robots=True) of the enhanced scraper
\* requests no page and returns the empty list unless the robots.txt check
\* says allowed, a check that raises counting as disallowed; and main
\* requests pages of a site that is not allowed only when the user has
\* answered 'yes'.
C17_RobotsRespected ==
    /\ (scr.kind = "enhanced" /\ scr.op = "scrape_catalog" /\ scr.respect
          /\ scr.robots # "allowed") =>
            /\ PageGets(scr.trace) = {}
            /\ scr.result = << >>
    /\ (scr.op = "main" /\ scr.robots # "allowed"
          /\ PageGets(scr.trace) # {}) =>
            scr.answer = "yes"

C17_Witness ==
    /\ scr.kind = "enhanced" /\ scr.op = "scrape_catalog" /\ scr.respect
    /\ scr.robots = "error"
    /\ scr.trace = << Get("robots", 0, FALSE) >>

TestTypes == {"K", "P", "C", "S", "O"}
Levels == {"Entry-Level", "Mid-Level", "Senior", "All Levels"}

\* C18 as stated: every record a scraper holds has test_type in
\* {K, P, C, S, O} and level in {Entry-Level, Mid-Level, Senior, All Levels}.
C18_EnumeratedFields ==
    \A i \in 1..Len(scr.assessments) :
        /\ scr.assessments[i].test_type \in TestTypes
        /\ scr.assessments[i].level \in Levels

\* C18: every record of the two SHLScraper classes and of the Selenium
\* scraper has test_type in {K, P, C, S, O} and level in {Entry-Level,
\* Mid-Level, Senior, All Levels}, whatever the page shows; a record of
\* CompleteSHLScraper has no level, and its test_type is the text after
\* the page's 'Test Type:' label or else one of P, A, K, B, S, Unknown.
C18_EnumeratedFieldsByClass ==
    \A i \in 1..Len(scr.assessments) :
        LET r == scr.assessments[i]
        IN  /\ scr.kind # "complete" =>
                  r.test_type \in TestTypes /\ r.level \in Levels
            /\ scr.kind = "complete" =>
                  /\ r.level = NoLevel
                  /\ r.test_type \in (Labels \ {NoLabel})
                                       \cup {"P", "A", "K", "B", "S", "Unknown"}

C18_Witness ==
    /\ scr.kind = "enhanced" /\ Len(scr.assessments) >= 1
    /\ scr.assessments[1].test_type = "C"
    /\ scr.assessments[1].level = "All Levels"

----------------------------------------------------------------------------
(* The embedding function *)

\* C20: the documents of the collection are always embedded with the
\* function the service embeds the queries with, whichever ingestion
\* script has populated it.
C20_SingleEmbeddingFunction ==
    ing.outcome \in {"done", "crashed"} => ef = service_ef

----------------------------------------------------------------------------
(* Properties of the candidates, the reranker and the final list *)

\* C21: the recommendations of one /recommend answer have pairwise
\* distinct urls, whatever the reranker replied and whatever the
\* collection holds.
C21_DistinctRecommendationUrls ==
    (IsRecommend /\ resp.status = 200) => DistinctUrls(resp.recs)

\* C22: a non-empty query on the empty collection, for which the vector
\* search has no candidate, is answered 404 'No assessments found', not
\* 200 and not 500.
C22_NoCandidates404 ==
    (IsRecommend /\ ~Blank(resp.req) /\ coll = <<>>) =>
        resp.status = 404 /\ resp.detail = "No assessments found"

\* C23: the vector search is asked for 30 candidates when the collection
\* holds at least 30 documents and for as many as it holds otherwise, so
\* the candidate list has that many entries, never more than 30 and never
\* more than the collection holds.
C23_FixedCandidateCount ==
    (IsRecommend /\ resp.status = 200) =>
        /\ Len(resp.results) =
              IF Len(coll) >= N_RESULTS THEN N_RESULTS ELSE Len(coll)
        /\ Len(resp.candidates) = Len(resp.results)
        /\ Len(resp.candidates) <= N_RESULTS
        /\ Len(resp.candidates) <= Len(coll)

C23_Witness ==
    /\ IsRecommend /\ resp.status = 200
    /\ Len(coll) = N_RESULTS + 1
    /\ Len(resp.candidates) = N_RESULTS

\* the names of the reply the loop looks at, and those of them some
\* candidate carries
Considered(r) ==
    LET names == selected_names(r.reply, r.candidates)
    IN  { i \in 1..Len(names) : i <= MAX_RECS }

Matching(r) ==
    LET names == selected_names(r.reply, r.candidates)
    IN  { i \in Considered(r) :
            \E j \in 1..Len(r.candidates) : r.candidates[j].name = names[i] }

\* C24: the reranker selects and reorders only: every entry it returns is
\* one of the candidates, unchanged; it has at most 10 entries; and when
\* the reply is read without an exception it has one entry for each of the
\* first 10 names that some candidate carries, in the order of the reply,
\* and none for the other names.
C24_RerankerSelectsOnly ==
    (IsRecommend /\ resp.status = 200) =>
        /\ \A i \in 1..Len(resp.reranked) :
              \E j \in 1..Len(resp.candidates) :
                  resp.reranked[i] = resp.candidates[j]
        /\ Len(resp.reranked) <= MAX_RECS
        /\ ~RerankRaises(resp.reply) =>
              /\ Len(resp.reranked) = Cardinality(Matching(resp))
              /\ \A i \in 1..Len(resp.reranked) :
                    \E n \in Matching(resp) :
                        /\ resp.reranked[i].name =
                              selected_names(resp.reply, resp.candidates)[n]
                        /\ Cardinality({ m \in Matching(resp) : m <= n }) = i

C24_Witness ==
    /\ IsRecommend /\ resp.status = 200
    /\ resp.reply.kind = "list" /\ resp.reply.pat = "mixed"
    /\ resp.reply.len > MAX_RECS
    /\ Len(resp.candidates) > MAX_RECS
    /\ Len(resp.reranked) = MAX_RECS \div 2

\* entry i of the answer is made of entry i of the list
MadeOf(recs, list, n) ==
    /\ Len(recs) = n
    /\ \A i \in 1..n :
          /\ recs[i].assessment_name = list[i].name
          /\ recs[i].url = list[i].url
          /\ recs[i].score = list[i].score

----------------------------------------------------------------------------
(* Properties of the batched ingestion *)

\* C26: the batched loop adds every prepared record exactly once: the
\* batches have at most 100 records and none is empty, batch b holds the
\* records of index (b-1)*100 .. min(b*100, n)-1 in order, so the batches
\* are consecutive, do not overlap and cover 0..n-1; the ids are pairwise
\* distinct; the collection holds n documents after the loop; and no
\* batch is issued for n = 0.
C26_BatchesCoverInput ==
    ing.outcome = "done" =>
        LET docs  == PrepareDocs(ing.input)
            n     == Len(docs)
            calls == AddCalls("backend", docs)
        IN  /\ n = 0 <=> calls = << >>
            /\ \A b \in 1..Len(calls) :
                  /\ calls[b] # << >> /\ Len(calls[b]) <= BATCH_SIZE
                  /\ b < Len(calls) => Len(calls[b]) = BATCH_SIZE
                  /\ \A k \in 1..Len(calls[b]) :
                        calls[b][k] = docs[(b - 1) * BATCH_SIZE + k]
            /\ SumOver(1..Len(calls), [ b \in 1..Len(calls) |-> Len(calls[b]) ]) = n
            /\ \A i, j \in 1..n : docs[i].id = docs[j].id => i = j
            /\ \A i \in 1..n : docs[i].id = i - 1
            /\ coll = docs

C26_Witness ==
    /\ ing.outcome = "done"
    /\ Len(ing.input) = 2 * BATCH_SIZE + 1
    /\ Len(AddCalls("backend", PrepareDocs(ing.input))) = 3
    /\ Len(coll) = 2 * BATCH_SIZE + 1

----------------------------------------------------------------------------
(* Properties of _fetch_with_retry (src/scraper.py).                       *)

Attempts(trace, u) == { i \in Gets(trace) : trace[i].url = u }

GaveUp(trace, u) ==
    /\ Attempts(trace, u) # {}
    /\ \A i \in Attempts(trace, u) : ~trace[i].ok

Last(S) == CHOOSE i \in S : \A j \in S : j <= i

\* the pages of a call whose request succeeded
Fetched(trace) ==
    { trace[i].url : i \in { j \in Gets(trace) : trace[j].url[1] = "page" /\ trace[j].ok } }

FetchWithRetryCall(before, call) ==
    LET t == call.trace
    IN  /\ \A i \in PageGets(t) :
              LET A == Attempts(t, t[i].url)
              IN  /\ Cardinality(A) <= MAX_RETRIES
                  /\ t[i].ok => i = Last(A)
                  /\ GaveUp(t, t[i].url) => Cardinality(A) = MAX_RETRIES
                  /\ i # Last(A) =>
                        /\ t[i + 1] = Sleep
                        /\ i + 2 \in A
                  /\ (i = Last(A) /\ ~t[i].ok) =>
                        IF t[i].url[1] = "catalog"
                        THEN /\ i = Len(t)
                             /\ call.result = << >>
                             /\ call.assessments = before.assessments
                        ELSE /\ i < Len(t) /\ t[i + 1] = Sleep
                             /\ i + 2 <= Len(t) => t[i + 2].ev = "get"
        /\ (\E i \in Gets(t) : t[i].url[1] = "catalog" /\ t[i].ok) =>
              Len(call.result) = Len(before.assessments) + Cardinality(Fetched(t))

\* C27: in a call of the scraper of src/scraper.py every address is
\* requested at most MAX_RETRIES times, a successful request is the last
\* one of its address, an address is given up only after MAX_RETRIES failed
\* requests, a failed request that is not the last one is followed by one
\* sleep and the next request of the same address, and after the last
\* failed request there is no sleep of the retry loop: the call ends with
\* an empty list (catalog page) or goes on to the sleep of the page loop
\* and the next page, the page given up adding no record.
C27_FetchWithRetryBounded ==
    [][ ( /\ scr'.kind = "enhanced"
          /\ scr'.op \in {"scrape_catalog", "main"}
          /\ scr.op \notin {"scrape_catalog", "main"} )
        => FetchWithRetryCall(scr, scr') ]_vars

C27_Witness ==
    /\ scr.kind = "enhanced" /\ scr.op = "scrape_catalog"
    /\ GaveUp(scr.trace, << "page", 1 >>)
    /\ << "page", 2 >> \in Fetched(scr.trace)
    /\ scr.result # << >>

----------------------------------------------------------------------------
(* Properties of an ingestion that stops on an input error.                *)

\* C28: a step after which the last ingestion run is one that stopped on a
\* missing JSON file or a missing Gemini key leaves the collection, and
\* the embedding function it was created with, as they were.
C28_InputErrorKeepsCollection ==
    [][ ing'.outcome \in {"nofile", "nokey"} => (coll' = coll /\ ef' = ef) ]_vars

C28_Witness ==
    /\ ing.outcome = "nokey"
    /\ Len(coll) = MaxDocs

----------------------------------------------------------------------------
(* Properties of the evaluator (src/backend/evaluate.py).                  *)

\* the first k urls of the answer to item i, nothing when the POST failed
FirstK(i) ==
    IF ev.rows[i].kind = "ok" THEN Take(ev.rows[i].urls, ev.k) ELSE << >>

CountsValid(p) ==
    /\ Len(p) \in MIN_RECS..MAX_RECS
    /\ Cardinality({ p[j] : j \in 1..Len(p) }) = Len(p)

\* a run that came to the loop: every item is posted and a failed POST
\* gives the empty list, which is not valid; the valid ones are counted
EvaluatorKeepsGoing ==
    (ev.op = "evaluate_constraints" /\ ev.outcome # "ValueError") =>
        /\ Len(ev.posts) = Len(ev.rows)
        /\ \A i \in 1..Len(ev.posts) :
              /\ ev.predictions[i] = FirstK(i)
              /\ ~ev.posts[i].ok => (ev.predictions[i] = << >> /\ ~CountsValid(FirstK(i)))
        /\ ev.valid_queries
             = Cardinality({ i \in 1..Len(ev.rows) : CountsValid(FirstK(i)) })

\* C29: in a run of evaluate_constraints a failed POST gives the empty
\* prediction list, every item is posted whatever the POSTs before gave,
\* valid_queries is the number of items whose first k predicted urls
\* number 5 to 10 and are pairwise distinct, and valid_queries is at most
\* total_queries.
C29_FailuresCountInvalid ==
    /\ EvaluatorKeepsGoing
    /\ ev.op = "evaluate_constraints" => ev.valid_queries <= ev.total_queries

Normalised(c) == strip(lower(c))

HasColumn(columns, w) == \E i \in 1..Len(columns) : Normalised(columns[i]) = w

\* C30: detect_query_column raises ValueError exactly when no column of
\* the table has the lower-cased, stripped name query, csvquery or
\* question; otherwise it returns a name that is a column of the table,
\* as the table spells it, and whose lower-cased, stripped form is the
\* first of query, csvquery, question that some column has.  After the
\* ValueError nothing is posted.
C30_QueryColumnDetected ==
    ev.op = "evaluate_constraints" =>
        LET cols == ev.df_columns
        IN  /\ cols = [ i \in 1..Len(ev.columns) |-> strip(ev.columns[i]) ]
            /\ ev.outcome = "ValueError"
                 <=> \A i \in 1..Len(CANDIDATES) : ~HasColumn(cols, CANDIDATES[i])
            /\ ev.outcome = "ValueError" => ev.posts = << >>
            /\ ev.outcome # "ValueError" =>
                 /\ \E i \in 1..Len(cols) : cols[i] = ev.query_col
                 /\ Normalised(ev.query_col)
                      = IF HasColumn(cols, W_query) THEN W_query
                        ELSE IF HasColumn(cols, W_csvquery) THEN W_csvquery
                        ELSE W_question

C30_Witness ==
    /\ ev.op = "evaluate_constraints"
    /\ ev.columns = << Capitalized(W_question), Capitalized(W_query) \o << SP >> >>
    /\ ev.query_col = Capitalized(W_query)

====
